---- MODULE Spec2Model ----
(***************************************************************************)
(* JitKernel.create and the Bound Callable it returns, as a state machine.  *)
(*                                                                         *)
(* Two front-ends share one shape: src/src/moe/jit.py (non-distributed,    *)
(* recognized file /tmp/<ctx>.cu, invoke(inputs, ctx)) and                 *)
(* src/tutel/jit.py (distributed, recognized file /tmp/<ctx>-<key>.cu,     *)
(* invoke(inputs, ctx, key), key = dist_rank read when the module loads).  *)
(*                                                                         *)
(* Every statement of create is one step of the calling thread, so that    *)
(* threads of one process, and processes sharing /tmp, interleave between  *)
(* statements.  `JitKernel.__CTX__ += 1` is a load and a store.  A call of *)
(* the Bound Callable is two steps: func is entered, the backend is        *)
(* invoked.                                                                *)
(*                                                                         *)
(* The import of the jit module depends on the host (CUDA, the kernel      *)
(* extension, torch.utils.cpp_extension).  SpecKernels adds the kernel     *)
(* module src/src/moe/jit_kernels/sparse_fp16.py: three create calls on    *)
(* specialized templates at import, and the wrapper func_fwd.              *)
(***************************************************************************)
EXTENDS Integers, Sequences, FiniteSets, TLC

----------------------------------------------------------------------------
(* Bounds of the model. *)

\* create calls started over all processes
MaxCalls == 2
\* Bound Callable invocations over all processes
MaxInvokes == 2
\* injected I/O failures (open / write / rename) over all processes
MaxFailures == 1

----------------------------------------------------------------------------
(* The universe the inputs are drawn from. *)

Procs == {1, 2}
Threads == {1, 2}

\* the rank the distributed context gives a process once it has joined
Rank(p) == IF p = 1 THEN 3 ELSE 0

\* kernel sources passed to create
Sources == {"A;", "B;"}

\* buffer lists passed to a Bound Callable
InputLists == {<<"A", "B", "C">>, <<"C", "A">>}

\* names tempfile.mktemp() may return
TmpNames == {"/tmp/tmpaaaa", "/tmp/tmpbbbb"}

\* hasattr(JitKernel, '__CTX__') is false / a local is not bound
Unbound == -1

\* the hosts a process may start on: torch.cuda.is_available(), whether the
\* custom kernel extension imports, and what torch.utils.cpp_extension gives
\* for IS_HIP_EXTENSION ("missing": the import raises)
Envs == [cuda_available : BOOLEAN, custom_kernel : BOOLEAN,
         cpp_extension : {"hip", "cuda", "missing"}]

VARIABLES
    variant,            \* "moe" (src/src/moe/jit.py) or "tutel" (src/tutel/jit.py)
    active,             \* the threads that run
    proc,               \* thread -> the process it belongs to
    env,                \* what is installed on the host the processes run on
    capacity,           \* shared_data.capacity
    joined,             \* process -> a distributed context is active
    loaded,             \* process -> the jit module has been imported
    IS_HIP_EXTENSION,   \* process -> module-level platform flag
    dist_rank,          \* process -> module-level participant identity
    abort,              \* process -> the exception that ended the module import
    CTX,                \* process -> JitKernel.__CTX__ (Unbound: no attribute)
    cuda_inits,         \* process -> number of torch.cuda.init() calls made
    pc,                 \* thread -> position inside create
    source,             \* thread -> create's argument
    ctx,                \* thread -> create's local __ctx__
    acc,                \* thread -> value loaded by `__CTX__ += 1`
    key,                \* thread -> create's local key
    temp_loc,           \* thread -> create's local temp_loc
    cid,                \* thread -> index in hist of the call it is running
    frame,              \* thread -> the call of a Bound Callable it is inside
    sparse_fp16,        \* process -> the kernel module: import state, names bound
    fs,                 \* the files under /tmp: path -> text
    funcs,              \* the closures create has returned
    calls,              \* the calls made on Bound Callables, in order
    invoked,            \* the calls that reached the backend, in order
    hist,               \* process -> the handle assignments, in order
    failures            \* the create calls that raised an I/O error

vars == <<variant, active, proc, env, capacity, sparse_fp16, joined, loaded, IS_HIP_EXTENSION,
          dist_rank, abort, CTX, cuda_inits, pc, source, ctx, acc, key,
          temp_loc, cid, frame, fs, funcs, calls, invoked, hist, failures>>

modvars == <<joined, loaded, IS_HIP_EXTENSION, dist_rank, abort>>
locals == <<source, ctx, acc, key, temp_loc, cid, frame>>
envvars == <<variant, active, proc, env, capacity>>

----------------------------------------------------------------------------
(* Pure helpers. *)

\* the include pair written before the source
Preamble(hip) ==
    IF hip THEN "#include <hip/hip_runtime.h>\n#include <hip/hip_fp16.h>\n"
           ELSE "#include <cuda_runtime.h>\n#include <cuda_fp16.h>\n"

StagingInPlace(tmp, c) == "/tmp/" \o ToString(c) \o ".cu"

StagingNoHandle(tmp, c) == tmp \o ".MoE"

\* f'{tempfile.mktemp()}-{__ctx__}.MoE'
StagingPath(tmp, c) == tmp \o "-" \o ToString(c) \o ".MoE"

\* f'/tmp/{__ctx__}.cu'  or  f'/tmp/{__ctx__}-{key}.cu'
RecognizedPath(v, c, k) ==
    IF v = "moe" THEN "/tmp/" \o ToString(c) \o ".cu"
                 ELSE "/tmp/" \o ToString(c) \o "-" \o ToString(k) \o ".cu"

IncrementTwice(v) == v + 2

\* JitKernel.__CTX__ += 1, the value stored
Increment(v) == v + 1

InvokeArgsLate(v, f, inputs) ==
    IF v = "moe" THEN <<inputs, CTX[f.proc] - 1>>
                 ELSE <<inputs, CTX[f.proc] - 1, f.key>>

\* what the callable hands to the backend's invoke
InvokeArgs(v, f, inputs) ==
    IF v = "moe" THEN <<inputs, f.ctx>> ELSE <<inputs, f.ctx, f.key>>

ActiveProcs == {proc[t] : t \in active}

\* key = dist_rank (src/tutel/jit.py only; the other front-end has no key)
KeyOf(p) == IF variant = "tutel" THEN dist_rank[p] ELSE Unbound

\* handle assignments made so far, over all processes
RECURSIVE Assigned(_)
Assigned(ps) ==
    IF ps = {} THEN 0
    ELSE LET p == CHOOSE q \in ps : TRUE
         IN  Len(hist[p]) + Assigned(ps \ {p})

\* create calls that have started, over all processes
Started ==
    Assigned(Procs)
    + Cardinality({t \in active : pc[t] \in {"check", "init", "seed", "read"}})

\* staging paths held by calls in flight
HeldStaging == {temp_loc[t] : t \in {u \in active : temp_loc[u] # ""}}

----------------------------------------------------------------------------
(* Kernel templates and their specialization (jit_kernels/sparse_fp16.py). *)
(* A text is a sequence of characters, so that replace works on the        *)
(* characters; the kernel bodies are cut down to one line each.            *)

\* values of shared_data.capacity
Capacities == {7, 64, 128}

\* the token the kernel templates carry
Placeholder ==
    <<"@", "c", "a", "p", "a", "c", "i", "t", "y", "@">>

\* the lines every kernel template starts with
Define ==
    <<"\n", "#", "d", "e", "f", "i", "n", "e", " ", "c", "a", "p", "a", "c",
      "i", "t", "y", " ", "(", "@", "c", "a", "p", "a", "c", "i", "t", "y",
      "@", ")", "\n">>

\* the kernel text behind them: stage 1 forward, 2 backward-gate,
\* 3 backward-data; the first two differ by platform
KernelBody(k, hip) ==
    IF k = 1 THEN IF hip THEN "float* dispatched_input < capacity"
                         ELSE "__half2* dispatched_input < capacity"
    ELSE IF k = 2 THEN IF hip THEN "threadIdx.y half* grad_gates1_s < capacity"
                              ELSE "blockIdx.x half* grad_gates1_s < capacity"
    ELSE "half* grad_reshaped_input < capacity"

Digits == <<"0", "1", "2", "3", "4", "5", "6", "7", "8", "9">>

\* str(n) of an int
RECURSIVE Str(_)
Str(n) ==
    IF n < 0 THEN <<"-">> \o Str(-n)
    ELSE IF n < 10 THEN <<Digits[n + 1]>>
    ELSE Str(n \div 10) \o <<Digits[(n % 10) + 1]>>

RECURSIVE ReplaceFirst(_, _, _)
ReplaceFirst(s, old, new) ==
    IF Len(s) < Len(old) THEN s
    ELSE IF SubSeq(s, 1, Len(old)) = old
         THEN new \o SubSeq(s, Len(old) + 1, Len(s))
         ELSE <<s[1]>> \o ReplaceFirst(Tail(s), old, new)

\* s.replace(old, new), old not empty: left to right, every occurrence
RECURSIVE Replace(_, _, _)
Replace(s, old, new) ==
    IF Len(s) < Len(old) THEN s
    ELSE IF SubSeq(s, 1, Len(old)) = old
         THEN new \o Replace(SubSeq(s, Len(old) + 1, Len(s)), old, new)
         ELSE <<s[1]>> \o Replace(Tail(s), old, new)

\* the characters as one string
RECURSIVE Join(_)
Join(cs) == IF cs = <<>> THEN "" ELSE cs[1] \o Join(Tail(cs))

\* """...""".replace('@capacity@', str(shared_data.capacity)): the source
\* the k-th create call of the kernel module is given
KernelSource(k, hip, cap) ==
    Join(Replace(Define, Placeholder, Str(cap))) \o KernelBody(k, hip)

\* what func_fwd hands to func_fwd_stage: the last buffer replaced by a
\* float32 zeros tensor (HIP), or gates replaced by gates_hf2 (CUDA)
FwdInputs(hip, inputs) ==
    IF hip THEN [inputs EXCEPT ![Len(inputs)] = "zeros(" \o @ \o ")"]
           ELSE <<"hf2(" \o inputs[1] \o ")">> \o Tail(inputs)

\* thread t is executing the module-level code of sparse_fp16
Importing(t) ==
    /\ sparse_fp16[proc[t]].state = "importing"
    /\ sparse_fp16[proc[t]].by = t

----------------------------------------------------------------------------
(* Initial states. *)

InitCommon ==
    /\ env \in Envs
    /\ abort = [p \in Procs |-> ""]
    /\ joined = [p \in Procs |-> FALSE]
    /\ loaded = [p \in Procs |-> FALSE]
    /\ IS_HIP_EXTENSION = [p \in Procs |-> FALSE]
    /\ dist_rank = [p \in Procs |-> 0]
    /\ CTX = [p \in Procs |-> Unbound]
    /\ cuda_inits = [p \in Procs |-> 0]
    /\ pc = [t \in Threads |-> "idle"]
    /\ source = [t \in Threads |-> ""]
    /\ ctx = [t \in Threads |-> Unbound]
    /\ acc = [t \in Threads |-> Unbound]
    /\ key = [t \in Threads |-> Unbound]
    /\ temp_loc = [t \in Threads |-> ""]
    /\ cid = [t \in Threads |-> 0]
    /\ frame = [t \in Threads |-> <<>>]
    /\ sparse_fp16 = [p \in Procs |-> [state |-> "absent", by |-> 0,
                                        bound |-> <<>>]]
    /\ fs = [path \in {} |-> ""]
    /\ funcs = {}
    /\ calls = <<>>
    /\ invoked = <<>>
    /\ hist = [p \in Procs |-> <<>>]
    /\ failures = {}

\* one process, two threads calling create concurrently
Init ==
    /\ variant \in {"moe", "tutel"}
    /\ active = {1, 2}
    /\ proc = [t \in Threads |-> 1]
    /\ InitCommon
    /\ capacity = 128

\* one process, one thread: create calls strictly one after another
InitSeq ==
    /\ variant \in {"moe", "tutel"}
    /\ active = {1}
    /\ proc = [t \in Threads |-> 1]
    /\ InitCommon
    /\ capacity = 128

\* two processes sharing /tmp, one thread each
InitDist ==
    /\ variant \in {"moe", "tutel"}
    /\ active = {1, 2}
    /\ proc = [t \in Threads |-> t]
    /\ InitCommon
    /\ capacity = 128

\* one process, one thread, a program that imports the kernel module
InitKernels ==
    /\ variant \in {"moe", "tutel"}
    /\ active = {1}
    /\ proc = [t \in Threads |-> 1]
    /\ InitCommon
    /\ capacity \in Capacities

----------------------------------------------------------------------------
(* Module load and the distributed context. *)

\* torch.distributed.init_process_group in the surrounding program
JoinDist(p) ==
    /\ p \in ActiveProcs
    /\ variant = "tutel"
    /\ ~joined[p]
    /\ joined' = [joined EXCEPT ![p] = TRUE]
    /\ UNCHANGED <<loaded, IS_HIP_EXTENSION, dist_rank, abort>>
    /\ UNCHANGED <<envvars, sparse_fp16, CTX, cuda_inits, pc, locals, fs, funcs, calls, invoked,
                   hist, failures>>

\* the exception the module-level statements before the class raise, "" if
\* none: the assert and the guarded import of src/tutel/jit.py, the plain
\* `import custom_kernel` of src/src/moe/jit.py
ImportError(v, e) ==
    IF v = "tutel"
    THEN IF ~e.cuda_available
         THEN "AssertionError: This version of Tutel MoE only supports CUDA. More backends will be supported soon."
         ELSE IF ~e.custom_kernel
              THEN "Exception: Cannot import JIT optimized kernels. Did you forget to install Custom Kernel Extension?"
              ELSE ""
    ELSE IF ~e.custom_kernel
         THEN "ModuleNotFoundError: No module named 'custom_kernel'"
         ELSE ""

FlagFromCuda(e) == e.cpp_extension # "cuda"

\* try: from torch.utils.cpp_extension import IS_HIP_EXTENSION
\* except: IS_HIP_EXTENSION = False
ResolveFlag(e) == e.cpp_extension = "hip"

\* import of the jit module raises: no module object, no JitKernel
LoadAbort(p) ==
    /\ p \in ActiveProcs
    /\ ~loaded[p]
    /\ abort[p] = ""
    /\ ImportError(variant, env) # ""
    /\ abort' = [abort EXCEPT ![p] = ImportError(variant, env)]
    /\ UNCHANGED <<joined, loaded, IS_HIP_EXTENSION, dist_rank>>
    /\ UNCHANGED <<envvars, sparse_fp16, CTX, cuda_inits, pc, locals, fs, funcs, calls, invoked,
                   hist, failures>>

\* import of the jit module: the module-level statements run to the end
LoadModule(p) ==
    /\ p \in ActiveProcs
    /\ ~loaded[p]
    /\ abort[p] = ""
    /\ ImportError(variant, env) = ""
    /\ loaded' = [loaded EXCEPT ![p] = TRUE]
    /\ IS_HIP_EXTENSION' = [IS_HIP_EXTENSION EXCEPT ![p] = ResolveFlag(env)]
    /\ dist_rank' = [dist_rank EXCEPT
                        ![p] = IF variant = "tutel" /\ joined[p]
                               THEN Rank(p) ELSE 0]
    /\ UNCHANGED <<joined, abort>>
    /\ UNCHANGED <<envvars, sparse_fp16, CTX, cuda_inits, pc, locals, fs, funcs, calls, invoked,
                   hist, failures>>

----------------------------------------------------------------------------
(* The kernel module jit_kernels/sparse_fp16.py. *)

\* create calls the module makes: func_fwd_stage, func_bwd_gate, func_bwd_data
NumKernels == 3

\* an exception leaves the module-level code: the import has failed
ImportRaised(p) ==
    [sparse_fp16 EXCEPT ![p] = [state |-> "failed", by |-> 0,
                                bound |-> @.bound]]

\* name = JitKernel.create(...): the next name of the module is bound; the
\* import is complete with the last one
Bind(p, f) ==
    [sparse_fp16 EXCEPT ![p] =
        IF Len(@.bound) + 1 = NumKernels
        THEN [state |-> "imported", by |-> 0, bound |-> Append(@.bound, f)]
        ELSE [state |-> "importing", by |-> @.by, bound |-> Append(@.bound, f)]]

\* import sparse_fp16: `from ..jit import JitKernel, IS_HIP_EXTENSION`
ImportKernels(t) ==
    /\ pc[t] = "idle"
    /\ variant = "moe"
    /\ loaded[proc[t]]
    /\ sparse_fp16[proc[t]].state = "absent"
    /\ sparse_fp16' = [sparse_fp16 EXCEPT ![proc[t]] =
                          [state |-> "importing", by |-> t, bound |-> <<>>]]
    /\ UNCHANGED <<envvars, modvars, CTX, cuda_inits, pc, locals, fs, funcs,
                   calls, invoked, hist, failures>>

\* the module-level code reaches its next JitKernel.create(...): the branch
\* of `if IS_HIP_EXTENSION:` picks the template, replace specializes it
KernelCreate(t) ==
    /\ pc[t] = "idle"
    /\ Importing(t)
    /\ pc' = [pc EXCEPT ![t] = "check"]
    /\ source' = [source EXCEPT ![t] =
                     KernelSource(Len(sparse_fp16[proc[t]].bound) + 1,
                                  IS_HIP_EXTENSION[proc[t]], capacity)]
    /\ UNCHANGED <<envvars, sparse_fp16, modvars, CTX, cuda_inits, ctx, acc, key,
                   temp_loc, frame, cid, fs, funcs, calls, invoked, hist,
                   failures>>

FwdTargetLast(p) == sparse_fp16[p].bound[NumKernels]

\* the callable func_fwd calls: func_fwd_stage
FwdTarget(p) == sparse_fp16[p].bound[1]

\* func_fwd(...) of the imported module: builds the buffer list and calls
\* func_fwd_stage
FuncFwd(t, inputs) ==
    /\ pc[t] = "idle"
    /\ sparse_fp16[proc[t]].state = "imported"
    /\ Len(calls) < MaxInvokes
    /\ calls' = Append(calls,
                   [proc |-> proc[t], cid |-> FwdTarget(proc[t]).cid,
                    inputs |-> FwdInputs(IS_HIP_EXTENSION[proc[t]], inputs),
                    via |-> "func_fwd"])
    /\ frame' = [frame EXCEPT ![t] =
                    <<[f |-> FwdTarget(proc[t]),
                       inputs |-> FwdInputs(IS_HIP_EXTENSION[proc[t]], inputs),
                       call |-> Len(calls) + 1]>>]
    /\ pc' = [pc EXCEPT ![t] = "invoke"]
    /\ UNCHANGED <<envvars, sparse_fp16, modvars, CTX, cuda_inits, source, ctx, acc,
                   key, temp_loc, cid, fs, funcs, invoked, hist, failures>>

----------------------------------------------------------------------------
(* JitKernel.create, statement by statement. *)

\* a caller enters create(source)
Call(t, src) ==
    /\ pc[t] = "idle"
    /\ ~Importing(t)
    /\ loaded[proc[t]]
    /\ Started < MaxCalls
    /\ pc' = [pc EXCEPT ![t] = "check"]
    /\ source' = [source EXCEPT ![t] = src]
    /\ UNCHANGED <<envvars, sparse_fp16, modvars, CTX, cuda_inits, ctx, acc, key, temp_loc, frame,
                   cid, fs, funcs, calls, invoked, hist, failures>>

\* if not hasattr(JitKernel, '__CTX__'):
Check(t) ==
    /\ pc[t] = "check"
    /\ pc' = [pc EXCEPT ![t] = IF CTX[proc[t]] = Unbound THEN "init" ELSE "read"]
    /\ UNCHANGED <<envvars, sparse_fp16, modvars, CTX, cuda_inits, locals, fs, funcs,
                   calls, invoked, hist, failures>>

\* torch.cuda.init() raises (no CUDA device or driver): the exception leaves
\* create before the counter exists
CudaInitFails(t) ==
    /\ pc[t] = "init"
    /\ ~env.cuda_available
    /\ pc' = [pc EXCEPT ![t] = "idle"]
    /\ source' = [source EXCEPT ![t] = ""]
    /\ sparse_fp16' = IF Importing(t) THEN ImportRaised(proc[t])
                      ELSE sparse_fp16
    /\ UNCHANGED <<envvars, modvars, CTX, cuda_inits, ctx, acc, key, temp_loc, frame,
                   cid, fs, funcs, calls, invoked, hist, failures>>

\* torch.cuda.init()
CudaInit(t) ==
    /\ pc[t] = "init"
    /\ env.cuda_available
    /\ cuda_inits' = [cuda_inits EXCEPT ![proc[t]] = @ + 1]
    /\ pc' = [pc EXCEPT ![t] = "seed"]
    /\ UNCHANGED <<envvars, sparse_fp16, modvars, CTX, locals, fs, funcs, calls, invoked, hist, failures>>

\* JitKernel.__CTX__ = 0
Seed(t) ==
    /\ pc[t] = "seed"
    /\ CTX' = [CTX EXCEPT ![proc[t]] = 0]
    /\ pc' = [pc EXCEPT ![t] = "read"]
    /\ UNCHANGED <<envvars, sparse_fp16, modvars, cuda_inits, locals, fs, funcs, calls, invoked,
                   hist, failures>>

\* __ctx__ = JitKernel.__CTX__
ReadCtx(t) ==
    /\ pc[t] = "read"
    /\ ctx' = [ctx EXCEPT ![t] = CTX[proc[t]]]
    /\ hist' = [hist EXCEPT ![proc[t]] =
                   Append(@, [source |-> source[t], handle |-> CTX[proc[t]]])]
    /\ cid' = [cid EXCEPT ![t] = Len(hist[proc[t]]) + 1]
    /\ pc' = [pc EXCEPT ![t] = "load"]
    /\ UNCHANGED <<envvars, sparse_fp16, modvars, CTX, cuda_inits, source, acc, key,
                   temp_loc, frame, fs, funcs, calls, invoked, failures>>

\* JitKernel.__CTX__ += 1, the load
LoadCtx(t) ==
    /\ pc[t] = "load"
    /\ acc' = [acc EXCEPT ![t] = CTX[proc[t]]]
    /\ pc' = [pc EXCEPT ![t] = "store"]
    /\ UNCHANGED <<envvars, sparse_fp16, modvars, CTX, cuda_inits, source, ctx, key,
                   temp_loc, frame, cid, fs, funcs, calls, invoked, hist, failures>>

\* JitKernel.__CTX__ += 1, the store
StoreCtx(t) ==
    /\ pc[t] = "store"
    /\ CTX' = [CTX EXCEPT ![proc[t]] = Increment(acc[t])]
    /\ acc' = [acc EXCEPT ![t] = Unbound]
    /\ pc' = [pc EXCEPT ![t] = "mktemp"]
    /\ UNCHANGED <<envvars, sparse_fp16, modvars, cuda_inits, source, ctx, key, temp_loc, frame,
                   cid, fs, funcs, calls, invoked, hist, failures>>

\* the random name tmp is behind the staging path of a call in flight
TmpHeld(tmp) ==
    \E u \in active, c \in 0..(MaxCalls + NumKernels) :
        temp_loc[u] = StagingPath(tmp, c)

\* key = dist_rank ; temp_loc = f'{tempfile.mktemp()}-{__ctx__}.MoE'
\* mktemp returns a name no file has, built from 8 random characters: two
\* calls in flight at the same time are taken not to draw the same name; a
\* name drawn by a call that has ended may come back.
MkTemp(t) ==
    /\ pc[t] = "mktemp"
    /\ \E tmp \in TmpNames :
          /\ tmp \notin DOMAIN fs
          /\ ~TmpHeld(tmp)
          /\ temp_loc' = [temp_loc EXCEPT ![t] = StagingPath(tmp, ctx[t])]
    /\ key' = [key EXCEPT ![t] = KeyOf(proc[t])]
    /\ pc' = [pc EXCEPT ![t] = "open"]
    /\ UNCHANGED <<envvars, sparse_fp16, modvars, CTX, cuda_inits, source, ctx, acc, cid,
                   frame, fs, funcs, calls, invoked, hist, failures>>

\* with open(temp_loc, 'w') as fp:   (creates or truncates)
Open(t) ==
    /\ pc[t] = "open"
    /\ fs' = [path \in (DOMAIN fs) \cup {temp_loc[t]} |->
                 IF path = temp_loc[t] THEN "" ELSE fs[path]]
    /\ pc' = [pc EXCEPT ![t] = "write_pre"]
    /\ UNCHANGED <<envvars, sparse_fp16, modvars, CTX, cuda_inits, locals, funcs, calls, invoked,
                   hist, failures>>

\* fp.write('#include ...')
WritePre(t) ==
    /\ pc[t] = "write_pre"
    /\ fs' = [fs EXCEPT ![temp_loc[t]] =
                 @ \o Preamble(IS_HIP_EXTENSION[proc[t]])]
    /\ pc' = [pc EXCEPT ![t] = "write_src"]
    /\ UNCHANGED <<envvars, sparse_fp16, modvars, CTX, cuda_inits, locals, funcs, calls, invoked,
                   hist, failures>>

\* fp.write(source) and the close at the end of the with block
WriteSrc(t) ==
    /\ pc[t] = "write_src"
    /\ fs' = [fs EXCEPT ![temp_loc[t]] = @ \o source[t]]
    /\ pc' = [pc EXCEPT ![t] = "rename"]
    /\ UNCHANGED <<envvars, sparse_fp16, modvars, CTX, cuda_inits, locals, funcs, calls, invoked,
                   hist, failures>>

RenameTargetFromTemp(t) == temp_loc[t] \o ".cu"

\* the destination of os.rename
RenameTarget(t) == RecognizedPath(variant, ctx[t], key[t])

RenameSkipped(t) ==
    /\ pc[t] = "rename"
    /\ pc' = [pc EXCEPT ![t] = "return"]
    /\ UNCHANGED <<envvars, sparse_fp16, modvars, CTX, cuda_inits, locals, fs, funcs,
                   calls, invoked, hist, failures>>

\* os.rename(temp_loc, ...): the staged file replaces the target atomically
Rename(t) ==
    /\ pc[t] = "rename"
    /\ temp_loc[t] \in DOMAIN fs
    /\ fs' = [path \in ((DOMAIN fs) \ {temp_loc[t]}) \cup {RenameTarget(t)} |->
                 IF path = RenameTarget(t) THEN fs[temp_loc[t]] ELSE fs[path]]
    /\ pc' = [pc EXCEPT ![t] = "return"]
    /\ UNCHANGED <<envvars, sparse_fp16, modvars, CTX, cuda_inits, locals, funcs, calls, invoked,
                   hist, failures>>

\* the locals of a call that has ended
ClearLocals(t) ==
    /\ source' = [source EXCEPT ![t] = ""]
    /\ ctx' = [ctx EXCEPT ![t] = Unbound]
    /\ acc' = [acc EXCEPT ![t] = Unbound]
    /\ key' = [key EXCEPT ![t] = Unbound]
    /\ temp_loc' = [temp_loc EXCEPT ![t] = ""]
    /\ cid' = [cid EXCEPT ![t] = 0]

\* def func(*inputs): ... ; return func
Return(t) ==
    /\ pc[t] = "return"
    /\ funcs' = funcs \cup {[proc |-> proc[t], cid |-> cid[t],
                             ctx |-> ctx[t], key |-> key[t]]}
    /\ pc' = [pc EXCEPT ![t] = "idle"]
    /\ ClearLocals(t)
    /\ sparse_fp16' =
          IF Importing(t)
          THEN Bind(proc[t], [proc |-> proc[t], cid |-> cid[t],
                              ctx |-> ctx[t], key |-> key[t]])
          ELSE sparse_fp16
    /\ UNCHANGED <<envvars, modvars, CTX, cuda_inits, frame, fs, calls, invoked,
                   hist, failures>>

\* open, write or os.rename raises OSError: the with block closes the file,
\* the exception leaves create, nothing is undone
IOError(t) ==
    /\ pc[t] \in {"open", "write_pre", "write_src", "rename"}
    /\ Cardinality(failures) < MaxFailures
    /\ failures' = failures \cup
                      {[proc |-> proc[t], cid |-> cid[t], ctx |-> ctx[t],
                        stage |-> pc[t]]}
    /\ pc' = [pc EXCEPT ![t] = "idle"]
    /\ ClearLocals(t)
    /\ sparse_fp16' = IF Importing(t) THEN ImportRaised(proc[t])
                      ELSE sparse_fp16
    /\ UNCHANGED <<envvars, modvars, CTX, cuda_inits, frame, fs, funcs, calls,
                   invoked, hist>>

----------------------------------------------------------------------------
(* The Bound Callable. *)

CallFuncCounting(t, f, inputs) ==
    /\ pc[t] = "idle"
    /\ ~Importing(t)
    /\ f.proc = proc[t]
    /\ Len(calls) < MaxInvokes
    /\ calls' = Append(calls, [proc |-> f.proc, cid |-> f.cid,
                               inputs |-> inputs, via |-> "func"])
    /\ frame' = [frame EXCEPT ![t] = <<[f |-> f, inputs |-> inputs,
                                        call |-> Len(calls) + 1]>>]
    /\ pc' = [pc EXCEPT ![t] = "invoke"]
    /\ CTX' = [CTX EXCEPT ![proc[t]] = @ + 1]
    /\ UNCHANGED <<envvars, sparse_fp16, modvars, cuda_inits, source, ctx, acc, key,
                   temp_loc, cid, fs, funcs, invoked, hist, failures>>

\* func(*inputs) is called: the frame binds inputs next to the captured
\* __ctx__ and key
CallFunc(t, f, inputs) ==
    /\ pc[t] = "idle"
    /\ ~Importing(t)
    /\ f.proc = proc[t]
    /\ Len(calls) < MaxInvokes
    /\ calls' = Append(calls, [proc |-> f.proc, cid |-> f.cid,
                               inputs |-> inputs, via |-> "func"])
    /\ frame' = [frame EXCEPT ![t] = <<[f |-> f, inputs |-> inputs,
                                        call |-> Len(calls) + 1]>>]
    /\ pc' = [pc EXCEPT ![t] = "invoke"]
    /\ UNCHANGED <<envvars, sparse_fp16, modvars, CTX, cuda_inits, source, ctx, acc, key,
                   temp_loc, cid, fs, funcs, invoked, hist, failures>>

InvokeDropped(t) ==
    /\ pc[t] = "invoke"
    /\ frame' = [frame EXCEPT ![t] = <<>>]
    /\ pc' = [pc EXCEPT ![t] = "idle"]
    /\ UNCHANGED <<envvars, sparse_fp16, modvars, CTX, cuda_inits, source, ctx, acc, key,
                   temp_loc, cid, fs, funcs, calls, invoked, hist, failures>>

\* custom_kernel.invoke(inputs, __ctx__ [, key]), and func returns
Invoke(t) ==
    /\ pc[t] = "invoke"
    /\ invoked' = Append(invoked,
                     [proc |-> frame[t][1].f.proc, cid |-> frame[t][1].f.cid,
                      inputs |-> frame[t][1].inputs,
                      args |-> InvokeArgs(variant, frame[t][1].f,
                                          frame[t][1].inputs),
                      call |-> frame[t][1].call])
    /\ frame' = [frame EXCEPT ![t] = <<>>]
    /\ pc' = [pc EXCEPT ![t] = "idle"]
    /\ UNCHANGED <<envvars, sparse_fp16, modvars, CTX, cuda_inits, source, ctx, acc, key,
                   temp_loc, cid, fs, funcs, calls, hist, failures>>

----------------------------------------------------------------------------

Next ==
    \/ \E p \in Procs : JoinDist(p)
    \/ \E p \in Procs : LoadAbort(p)
    \/ \E p \in Procs : LoadModule(p)
    \/ \E t \in active, src \in Sources : Call(t, src)
    \/ \E t \in active : Check(t)
    \/ \E t \in active : CudaInitFails(t)
    \/ \E t \in active : CudaInit(t)
    \/ \E t \in active : Seed(t)
    \/ \E t \in active : ReadCtx(t)
    \/ \E t \in active : LoadCtx(t)
    \/ \E t \in active : StoreCtx(t)
    \/ \E t \in active : MkTemp(t)
    \/ \E t \in active : Open(t)
    \/ \E t \in active : WritePre(t)
    \/ \E t \in active : WriteSrc(t)
    \/ \E t \in active : Rename(t)
    \/ \E t \in active : Return(t)
    \/ \E t \in active : IOError(t)
    \/ \E t \in active, f \in funcs, inputs \in InputLists : CallFunc(t, f, inputs)
    \/ \E t \in active : Invoke(t)

Spec == Init /\ [][Next]_vars
SpecSeq == InitSeq /\ [][Next]_vars
SpecDist == InitDist /\ [][Next]_vars

\* the program of Next that also imports and uses the kernel module
NextKernels ==
    \/ Next
    \/ \E t \in active : ImportKernels(t)
    \/ \E t \in active : KernelCreate(t)
    \/ \E t \in active, inputs \in InputLists : FuncFwd(t, inputs)

SpecKernels == InitKernels /\ [][NextKernels]_vars

----------------------------------------------------------------------------
(* What the claims are stated over. *)

\* the identities dist_rank can hold, and no key at all
Keys == {Unbound, 0} \cup {Rank(p) : p \in Procs}

\* the names the backend recognizes: /tmp/<handle>.cu, /tmp/<handle>-<id>.cu
RecognizedNames ==
    {"/tmp/" \o ToString(h) \o ".cu" : h \in 0..(MaxCalls + NumKernels)}
    \cup {"/tmp/" \o ToString(h) \o "-" \o ToString(k) \o ".cu" :
             h \in 0..(MaxCalls + NumKernels), k \in Keys \ {Unbound}}

\* the recognized name the claims expect for handle h of process p
ExpectedName(h, p) ==
    IF variant = "moe"
    THEN "/tmp/" \o ToString(h) \o ".cu"
    ELSE "/tmp/" \o ToString(h) \o "-" \o ToString(dist_rank[p]) \o ".cu"

\* txt is preamble + source of some create call that was given the handle
\* the name path stands for
CompleteText(path, txt) ==
    \E p \in Procs : \E k \in 1..Len(hist[p]) :
        /\ path = ExpectedName(hist[p][k].handle, p)
        /\ txt = Preamble(IS_HIP_EXTENSION[p]) \o hist[p][k].source

\* the handles process p has handed out
Handles(p) == {hist[p][k].handle : k \in 1..Len(hist[p])}

----------------------------------------------------------------------------
\* C1: sequential create calls of one process: the k-th call is assigned
\* handle k-1 (whatever the sources, repeated ones included), so the handles
\* are 0..N-1 in call order, the callable of the k-th call carries k-1, and
\* once the N-th increment is stored the counter equals N.
C1_SequentialHandles ==
    \A p \in Procs :
        /\ \A k \in 1..Len(hist[p]) : hist[p][k].handle = k - 1
        /\ \A f \in funcs : f.proc = p => f.ctx = f.cid - 1
        /\ ( /\ Len(hist[p]) > 0
             /\ \A t \in active : proc[t] = p => pc[t] \notin {"load", "store"} )
           => CTX[p] = Len(hist[p])

\* two calls with the same source got handles 0 and 1, counter is 2
C1_Witness ==
    /\ Len(hist[1]) = 2
    /\ hist[1][1].source = hist[1][2].source
    /\ hist[1][1].handle = 0 /\ hist[1][2].handle = 1
    /\ CTX[1] = 2

\* C2: (as claimed) under concurrent create calls of one process no two
\* calls receive the same handle and the handles handed out are 0..N-1.
C2_ConcurrentHandlesUnique ==
    \A p \in Procs :
        /\ \A i, j \in 1..Len(hist[p]) :
              i # j => hist[p][i].handle # hist[p][j].handle
        /\ Handles(p) = 0..(Len(hist[p]) - 1)

\* C3: a file at a recognized name either does not exist or holds the
\* complete text preamble + source of a call given that handle; the partial
\* texts ("" after open, the preamble alone) only ever sit at staging names.
C3_NoPartialRecognizedFile ==
    \A path \in DOMAIN fs :
        path \in RecognizedNames => CompleteText(path, fs[path])

\* a recognized file is in place while another call's staging file holds
\* only the preamble
C3_Witness ==
    /\ \E path \in DOMAIN fs : path \in RecognizedNames
    /\ \E t \in active :
          /\ pc[t] = "write_src"
          /\ fs[temp_loc[t]] = Preamble(IS_HIP_EXTENSION[proc[t]])

\* C4: when os.rename has run, the file sits at /tmp/<handle>.cu
\* (non-distributed) or /tmp/<handle>-<identity>.cu (distributed), a name
\* fixed by handle and identity alone whatever the source and the staging
\* name were; handle 2 with identity 3 is /tmp/2-3.cu; and distinct handles
\* of one process give distinct names, so that every call that reached its
\* rename has a recognized file of its own.
C4_PathFromHandleAndIdentity ==
    /\ \A t \in active :
          pc[t] = "return" =>
             /\ ExpectedName(ctx[t], proc[t]) \in DOMAIN fs
             /\ temp_loc[t] \notin DOMAIN fs
             /\ (variant = "tutel" /\ ctx[t] = 2 /\ dist_rank[proc[t]] = 3)
                   => "/tmp/2-3.cu" \in DOMAIN fs
             /\ (variant = "tutel" /\ ctx[t] = 1 /\ dist_rank[proc[t]] = 3)
                   => "/tmp/1-3.cu" \in DOMAIN fs
             /\ (variant = "moe" /\ ctx[t] = 1) => "/tmp/1.cu" \in DOMAIN fs
    /\ \A p \in Procs :
          Cardinality({ExpectedName(h, p) : h \in Handles(p)})
             = Cardinality(Handles(p))
    /\ Cardinality({path \in DOMAIN fs : path \in RecognizedNames})
          = Cardinality({f \in funcs : TRUE})
            + Cardinality({t \in active : pc[t] = "return"})

\* identity 3, second call: its file is /tmp/1-3.cu, beside /tmp/0-3.cu,
\* and the two calls had different sources
C4_Witness ==
    /\ variant = "tutel"
    /\ DOMAIN fs = {"/tmp/0-3.cu", "/tmp/1-3.cu"}
    /\ fs["/tmp/0-3.cu"] # fs["/tmp/1-3.cu"]

\* C5: every backend invoke event carries the caller's buffer list
\* unchanged, the handle assigned when its callable was created, and in the
\* distributed variant the participant identity, whatever the counter has
\* become since.
C5_InvokeForwardsCapturedHandle ==
    \A i \in 1..Len(invoked) :
        LET e == invoked[i]
        IN  /\ e.args[1] = e.inputs
            /\ e.args[2] = hist[e.proc][e.cid].handle
            /\ IF variant = "moe"
               THEN Len(e.args) = 2
               ELSE Len(e.args) = 3 /\ e.args[3] = dist_rank[e.proc]

\* the callable of handle 0 was invoked with <<A, B, C>> after a later
\* create had moved the counter to 2
C5_Witness ==
    /\ CTX[1] = 2
    /\ Len(invoked) > 0
    /\ invoked[Len(invoked)].inputs = <<"A", "B", "C">>
    /\ invoked[Len(invoked)].args[2] = 0

\* C6: whenever a Bound Callable exists, and so whenever one has been
\* invoked, the recognized file of its handle exists with complete text.
C6_FileBeforeInvoke ==
    /\ \A f \in funcs :
          /\ ExpectedName(f.ctx, f.proc) \in DOMAIN fs
          /\ CompleteText(ExpectedName(f.ctx, f.proc),
                          fs[ExpectedName(f.ctx, f.proc)])
    /\ \A i \in 1..Len(invoked) :
          /\ ExpectedName(invoked[i].args[2], invoked[i].proc) \in DOMAIN fs
          /\ CompleteText(ExpectedName(invoked[i].args[2], invoked[i].proc),
                          fs[ExpectedName(invoked[i].args[2], invoked[i].proc)])

\* a callable has been invoked while another create is still writing
C6_Witness ==
    /\ Len(invoked) > 0
    /\ \E t \in active : pc[t] \in {"write_pre", "write_src"}

\* C7: (as claimed) in the distributed variant peers that have joined the
\* distributed context with distinct participant identities never hold
\* callables for the same recognized name, whatever the order of module
\* load and joining.
C7_DistinctPeersDistinctPaths ==
    \A f, g \in funcs :
        ( /\ variant = "tutel"
          /\ joined[f.proc] /\ joined[g.proc]
          /\ Rank(f.proc) # Rank(g.proc) )
           => RecognizedPath(variant, f.ctx, f.key)
                 # RecognizedPath(variant, g.ctx, g.key)

\* C8: (as claimed) a recognized file, once there, is never deleted or
\* changed, and os.rename never lands on a name that already exists.
C8_RecognizedFilesImmutable ==
    [][ /\ \A path \in DOMAIN fs :
              path \in RecognizedNames
                 => path \in DOMAIN fs' /\ fs'[path] = fs[path]
        /\ \A t \in active :
              (pc[t] = "rename" /\ pc'[t] = "return")
                 => RenameTarget(t) \notin DOMAIN fs ]_vars

\* C9: (as claimed) a create call that raised left nothing behind: no
\* callable for it, no staging file, and no other file that is not a
\* complete recognized one.
C9_NoPartialFailureState ==
    \A fl \in failures :
        /\ \A f \in funcs : ~(f.proc = fl.proc /\ f.cid = fl.cid)
        /\ \A path \in DOMAIN fs :
              path \in RecognizedNames \/ path \in HeldStaging

\* C10: (as claimed) torch.cuda.init() runs once per process, the counter
\* is set to 0 only before any handle is handed out, and it never decreases.
C10_InitOnce ==
    [][ \A p \in Procs :
           /\ cuda_inits'[p] # cuda_inits[p] => cuda_inits[p] = 0
           /\ CTX'[p] >= CTX[p]
           /\ (CTX'[p] = 0 /\ CTX[p] # Unbound) => Len(hist[p]) = 0 ]_vars

\* C11: (as claimed) each distinct kernel body is materialized once per
\* process: no two recognized files hold the same kernel body.
C11_OneFilePerBody ==
    \A path1, path2 \in (DOMAIN fs) \cap RecognizedNames :
        path1 # path2 => fs[path1] # fs[path2]

\* C12: the recognized file of a create call holds the HIP include pair when
\* the platform flag is true and the CUDA include pair when it is false,
\* followed by the source and nothing else; the flag is what the import of
\* IS_HIP_EXTENSION gave when the module loaded, false when that import
\* raised, and every recognized file of the process starts with the include
\* pair of that one flag whatever its handle and the calls before it.
C12_PreambleThenSource ==
    /\ \A p \in Procs :
          loaded[p] => IS_HIP_EXTENSION[p] = (env.cpp_extension = "hip")
    /\ \A t \in active :
          pc[t] = "return" =>
             fs[ExpectedName(ctx[t], proc[t])] =
                (IF IS_HIP_EXTENSION[proc[t]]
                 THEN "#include <hip/hip_runtime.h>\n#include <hip/hip_fp16.h>\n"
                 ELSE "#include <cuda_runtime.h>\n#include <cuda_fp16.h>\n")
                \o source[t]
    /\ \A path \in (DOMAIN fs) \cap RecognizedNames :
          \E src \in Sources :
             fs[path] =
                (IF env.cpp_extension = "hip"
                 THEN "#include <hip/hip_runtime.h>\n#include <hip/hip_fp16.h>\n"
                 ELSE "#include <cuda_runtime.h>\n#include <cuda_fp16.h>\n")
                \o src

\* on a host where the import of IS_HIP_EXTENSION raises, a second create
\* call has put "B;" behind the CUDA pair while /tmp/0.cu holds "A;"
C12_Witness ==
    /\ env.cpp_extension = "missing"
    /\ variant = "moe"
    /\ "/tmp/0.cu" \in DOMAIN fs
    /\ fs["/tmp/0.cu"] = "#include <cuda_runtime.h>\n#include <cuda_fp16.h>\n" \o "A;"
    /\ \E t \in active :
          /\ pc[t] = "return"
          /\ ctx[t] = 1
          /\ fs["/tmp/1.cu"] = "#include <cuda_runtime.h>\n#include <cuda_fp16.h>\n" \o "B;"

\* C13: for every Bound Callable the calls that reached the backend are, in
\* order, the calls made on it: the i-th backend invoke carries the buffer
\* list of the i-th call and the captured handle, and the only call made
\* and not yet at the backend is the one whose frame is still open (none
\* dropped, none twice, none out of order).
C13_BackendInCallOrder ==
    \A f \in funcs :
        LET On(e) == e.proc = f.proc /\ e.cid = f.cid
            made == SelectSeq(calls, On)
            reached == SelectSeq(invoked, On)
            open == {t \in active : frame[t] # <<>> /\ frame[t][1].f = f}
        IN  /\ Len(reached) + Cardinality(open) = Len(made)
            /\ \A i \in 1..Len(reached) :
                  /\ reached[i].args[1] = made[i].inputs
                  /\ reached[i].args[2] = f.ctx

\* one callable has been called twice with different buffer lists and both
\* calls have reached the backend
C13_Witness ==
    /\ Len(invoked) = 2
    /\ invoked[1].cid = invoked[2].cid
    /\ invoked[1].proc = invoked[2].proc
    /\ invoked[1].args[1] # invoked[2].args[1]

\* C14: a step of a Bound Callable (entering func, the backend invoke)
\* leaves the counter, the platform flag, the identity, the files and the
\* closures as they are; the counter and the files change only in a step of
\* a create call.
C14_InvokeChangesNothing ==
    [][ /\ (calls' # calls \/ invoked' # invoked \/ frame' # frame) =>
              UNCHANGED <<CTX, cuda_inits, IS_HIP_EXTENSION, dist_rank, loaded,
                          fs, funcs, hist>>
        /\ (CTX' # CTX \/ fs' # fs) =>
              \E t \in active :
                 /\ pc[t] \in {"seed", "store", "open", "write_pre",
                               "write_src", "rename"}
                 /\ pc'[t] # pc[t] ]_vars

\* two invocations have gone through after one create call: the counter is
\* still 1 and /tmp holds the one file
C14_Witness ==
    /\ Len(invoked) = 2
    /\ CTX[1] = 1
    /\ Cardinality(DOMAIN fs) = 1
    /\ Cardinality(funcs) = 1

\* sub occurs in the text s
Occurs(sub, s) ==
    \E i \in 1..(Len(s) - Len(sub) + 1) : SubSeq(s, i, i + Len(sub) - 1) = sub

\* the text a kernel of stage k must hand to create, written out
ExpectedKernelSource(k, hip) ==
    "\n#define capacity (" \o ToString(capacity) \o ")\n"
    \o (IF k = 1 THEN IF hip THEN "float* dispatched_input < capacity"
                             ELSE "__half2* dispatched_input < capacity"
        ELSE IF k = 2
             THEN IF hip THEN "threadIdx.y half* grad_gates1_s < capacity"
                         ELSE "blockIdx.x half* grad_gates1_s < capacity"
             ELSE "half* grad_reshaped_input < capacity")

\* C15: the source a kernel hands to create is its template with the token
\* @capacity@ replaced by the decimal digits of the capacity and every other
\* character as it was (the macro name `capacity` stays): the result holds
\* no token, putting the token back for the digits gives the template, and
\* the file of a bound kernel holds that text.  With the capacity of the
\* run, on texts with one, several and no token: "cap=@CAP@;" with 128 is
\* "cap=128;", every one of several tokens is replaced, a text without a
\* whole token is returned as it is.
C15_TextualSpecialization ==
    /\ \A t \in active :
          (Importing(t) /\ pc[t] = "check") =>
             LET body == Replace(Define, Placeholder, Str(capacity))
                 CAP == <<"@", "C", "A", "P", "@">>
                 one == <<"c", "a", "p", "=">> \o CAP \o <<";">>
                 many == CAP \o CAP \o <<"+">> \o CAP
                 none == <<"@", "C", "A", "P", ";", "@">>
             IN  /\ ~Occurs(Placeholder, body)
                 /\ Replace(body, Str(capacity), Placeholder) = Define
                 /\ Join(Replace(one, CAP, Str(128))) = "cap=128;"
                 /\ Join(Replace(many, CAP, Str(capacity))) =
                       ToString(capacity) \o ToString(capacity) \o "+"
                       \o ToString(capacity)
                 /\ Replace(none, CAP, Str(capacity)) = none
    /\ \A t \in active :
          (Importing(t) /\ pc[t] # "idle") =>
             source[t] =
                ExpectedKernelSource(Len(sparse_fp16[proc[t]].bound) + 1,
                                     IS_HIP_EXTENSION[proc[t]])
    /\ \A p \in ActiveProcs :
          \A k \in 1..Len(sparse_fp16[p].bound) :
             fs[ExpectedName(sparse_fp16[p].bound[k].ctx, p)] =
                Preamble(IS_HIP_EXTENSION[p])
                \o ExpectedKernelSource(k, IS_HIP_EXTENSION[p])

\* with capacity 64 on a HIP host the forward kernel's file has been renamed
\* into place with "(64)" in its first line
C15_Witness ==
    /\ capacity = 64
    /\ \E t \in active :
          /\ Importing(t)
          /\ pc[t] = "return"
          /\ sparse_fp16[proc[t]].bound = <<>>
          /\ source[t] = "\n#define capacity (64)\nfloat* dispatched_input < capacity"
          /\ fs[ExpectedName(ctx[t], proc[t])] =
                "#include <hip/hip_runtime.h>\n#include <hip/hip_fp16.h>\n"
                \o "\n#define capacity (64)\nfloat* dispatched_input < capacity"

\* C16: (as claimed) on a host without CUDA or without the native backend
\* extension the import of the jit module aborts with a diagnostic naming
\* what is missing, before any handle or file exists: the module never
\* becomes loaded, no create call is ever entered and nothing is allocated
\* or written.
C16_LoadAbortsWithoutBackend ==
    (~env.cuda_available \/ ~env.custom_kernel) =>
        \A p \in ActiveProcs :
            /\ ~loaded[p]
            /\ \A t \in active : proc[t] = p => pc[t] = "idle"
            /\ CTX[p] = Unbound
            /\ hist[p] = <<>>
            /\ fs = <<>>

\* C17: when create is about to return, its staging file is gone and one
\* recognized file exists for its handle; staging names and recognized
\* names never meet; staging names built for different handles differ
\* whatever mktemp returned, so the file a call opens does not exist yet (it
\* is not the file a failed call with another handle left behind) and no
\* other call in flight holds it.
C17_StagingNamesApart ==
    /\ \A t \in active :
          pc[t] = "return" =>
             /\ temp_loc[t] \notin DOMAIN fs
             /\ Cardinality({path \in DOMAIN fs :
                    \E k \in Keys :
                       path = (IF k = Unbound
                               THEN "/tmp/" \o ToString(ctx[t]) \o ".cu"
                               ELSE "/tmp/" \o ToString(ctx[t]) \o "-"
                                    \o ToString(k) \o ".cu")}) = 1
    /\ \A t \in active :
          pc[t] = "open" =>
             /\ temp_loc[t] \notin DOMAIN fs
             /\ temp_loc[t] \notin RecognizedNames
             /\ \A tmp1, tmp2 \in TmpNames :
                   \A h1, h2 \in 0..MaxCalls :
                      /\ StagingPath(tmp1, h1) \notin RecognizedNames
                      /\ h1 # h2 => StagingPath(tmp1, h1) # StagingPath(tmp2, h2)
    /\ \A t, u \in active :
          (temp_loc[t] # "" /\ temp_loc[u] # "" /\ ctx[t] # ctx[u]) =>
             temp_loc[t] # temp_loc[u]
    /\ \A path \in DOMAIN fs :
          path \notin RecognizedNames =>
             \E tmp \in TmpNames, h \in 0..MaxCalls :
                /\ path = tmp \o "-" \o ToString(h) \o ".MoE"
                /\ h \in Handles(1) \cup Handles(2)

\* a call that failed with handle 0 left /tmp/tmpaaaa-0.MoE behind, and the
\* next call, given the same random name and handle 1, is about to return
C17_Witness ==
    /\ "/tmp/tmpaaaa-0.MoE" \in DOMAIN fs
    /\ \E t \in active :
          /\ pc[t] = "return"
          /\ ctx[t] = 1
          /\ temp_loc[t] = "/tmp/tmpaaaa-1.MoE"

\* C18: the import of sparse_fp16 binds func_fwd_stage, func_bwd_gate and
\* func_bwd_data in this order by three create calls in a row, each given the
\* text of its stage for the platform flag of the process (one branch of
\* each conditional); it is complete exactly when the three are bound; if no
\* create came before, their handles are 0, 1 and 2; and every call of
\* func_fwd is one call of func_fwd_stage, which reaches the backend once
\* with that callable's handle.
C18_ThreeKernelsInOrder ==
    \A p \in ActiveProcs :
        LET m == sparse_fp16[p]
        IN  /\ Len(m.bound) <= 3
            /\ (m.state = "imported") = (Len(m.bound) = 3)
            /\ \A k \in 1..Len(m.bound) :
                  /\ m.bound[k].cid = m.bound[1].cid + (k - 1)
                  /\ m.bound[k].ctx = m.bound[1].ctx + (k - 1)
                  /\ hist[p][m.bound[k].cid].handle = m.bound[k].ctx
                  /\ hist[p][m.bound[k].cid].source =
                        ExpectedKernelSource(k, env.cpp_extension = "hip")
                  /\ m.bound[1].cid = 1 => m.bound[k].ctx = k - 1
            /\ \A i \in 1..Len(calls) :
                  (calls[i].proc = p /\ calls[i].via = "func_fwd") =>
                     /\ m.state = "imported"
                     /\ calls[i].cid = m.bound[1].cid
                     /\ Cardinality({j \in 1..Len(invoked) :
                                       invoked[j].call = i}) =
                           (IF \E t \in active : /\ frame[t] # <<>>
                                                 /\ frame[t][1].call = i
                            THEN 0 ELSE 1)
                     /\ \A j \in 1..Len(invoked) :
                           invoked[j].call = i =>
                              /\ invoked[j].args[2] = m.bound[1].ctx
                              /\ invoked[j].args[1] = calls[i].inputs

\* the module is imported with handles 0, 1, 2 on a CUDA host and a call of
\* func_fwd("A", "B", "C") has reached the backend as
\* invoke((hf2(A), B, C), 0)
C18_Witness ==
    /\ sparse_fp16[1].state = "imported"
    /\ sparse_fp16[1].bound[1].ctx = 0
    /\ sparse_fp16[1].bound[2].ctx = 1
    /\ sparse_fp16[1].bound[3].ctx = 2
    /\ ~IS_HIP_EXTENSION[1]
    /\ Len(invoked) = 1
    /\ calls[1].via = "func_fwd"
    /\ invoked[1].args = <<(<<"hf2(A)", "B", "C">>), 0>>

====
